---- MODULE Spec2Model ----
(***************************************************************************)
(* A model of the two REST clients of scripts/:                            *)
(*   - RestApiClient  (rest_api_client.py): the generic client, run one     *)
(*     request per process by its command line main();                     *)
(*   - SupersetClient (superset_client.py): the client that logs in,        *)
(*     fetches a CSRF token and provisions datasets, charts, dashboards.   *)
(* A step of a client is one HTTP round trip together with all the local   *)
(* code that runs up to the next round trip, return or raise: the calls    *)
(* are blocking, so these are the only points where another party (the     *)
(* server, another session) can act.  The network and the server are the   *)
(* environment: every round trip ends in a timeout, a connection error or  *)
(* a response with some status and body.                                   *)
(* Four specifications share the state:                                    *)
(*   - Spec: the command line run of RestApiClient, or a SupersetClient    *)
(*     whose caller uses its methods without arguments of its own;         *)
(*   - SpecSession: a SupersetClient whose caller forwards requests with   *)
(*     headers= and timeout=, calls close() and leaves a with-block;       *)
(*   - SpecUrl: the URL the two clients build from base_url and endpoint;  *)
(*   - SpecRace: two SupersetClient sessions that call create_dataset with *)
(*     the same arguments against one server.                              *)
(***************************************************************************)
EXTENDS Integers, Sequences, FiniteSets, TLC

\* ---------------------------------------------------------------- bounds
\* Requests one SupersetClient sends in a run (the two of the handshake included).
MaxReq == 5
\* Characters of a base URL or an endpoint handed to a client.
MaxLen == 3

\* ---------------------------------------------------------------- values
Clients == {1, 2}
Methods == {"GET", "POST", "PUT", "PATCH", "DELETE"}
\* Response statuses the environment answers with: 2xx, a 3xx, 4xx and 5xx.
Statuses == {200, 201, 304, 401, 403, 422, 500}
Tokens == {"tok123"}
CsrfTokens == {"csrf456"}
DBs == {1}
Schemas == {"public", "other"}
Tables == {"sales"}
\* Names looked up: one that datasets carry and one that nothing carries.
Names == {"sales", "costs"}
DbNames == {"examples"}
\* Chart ids handed to create_dashboard: the same ids in two orders.
ChartLists == {<<1, 2>>, <<2, 1>>}
TimeoutArgs == {0, 5}
\* headers= a caller passes with a forwarded request: none, an Authorization
\* of its own, an X-CSRFToken of its own.
OwnHeaders == {[auth |-> "", csrf |-> ""], [auth |-> "Basic own", csrf |-> ""],
               [auth |-> "", csrf |-> "own789"]}

\* A response body.  json: whether the text parses as a JSON object.  A key that
\* is absent and a key holding an empty value take the same branch in the code
\* (`if not token`, `.get("result", [])` then `if not result`), so both are the
\* empty value here; "id" is read with [] and its absence is hasId = FALSE.
Body(json, access_token, csrf, list, hasId, id) ==
    [json |-> json, access_token |-> access_token, csrf |-> csrf,
     list |-> list, hasId |-> hasId, id |-> id]
TextBody == Body(FALSE, "", "", <<>>, FALSE, 0)
ErrBody == Body(TRUE, "", "", <<>>, FALSE, 0)
TokenBody(t) == Body(TRUE, t, "", <<>>, FALSE, 0)
CsrfBody(t) == Body(TRUE, "", t, <<>>, FALSE, 0)
ListBody(l) == Body(TRUE, "", "", l, FALSE, 0)
IdBody(i) == Body(TRUE, "", "", <<>>, TRUE, i)

\* The outcome of one round trip on requests.Session.request.
Net(kind, status, body) == [net |-> kind, status |-> status, body |-> body]
NoNet == Net("none", 0, TextBody)
TimeoutNet == Net("Timeout", 0, TextBody)
ConnErrNet == Net("ConnectionError", 0, TextBody)
Resp(status, body) == Net("Response", status, body)
FaultNets == {TimeoutNet, ConnErrNet}
ErrBodies == {TextBody, ErrBody}

\* What an operation hands its caller: a returned value or a raised exception.
Outcome(out, val, id, status, exc, msg, body, token) ==
    [out |-> out, val |-> val, id |-> id, status |-> status, exc |-> exc,
     msg |-> msg, body |-> body, token |-> token]
NoOutcome == Outcome("none", "", 0, 0, "", "", TextBody, "")
Raise(exc, msg, status) == Outcome("raise", "", 0, status, exc, msg, TextBody, "")
RetResponse(status, body) == Outcome("ret", "Response", 0, status, "", "", body, "")
RetNone == Outcome("ret", "None", 0, 0, "", "", TextBody, "")
RetId(i) == Outcome("ret", "id", i, 0, "", "", TextBody, "")
RetToken(t) == Outcome("ret", "token", 0, 0, "", "", TextBody, t)
RetSession == Outcome("ret", "session", 0, 0, "", "", TextBody, "")
Continue == Outcome("lookup", "", 0, 0, "", "", TextBody, "")

\* requests.Response.raise_for_status, called at the lines mapped: it raises
\* HTTPError for a 4xx or 5xx status and for no other.
RaisesForStatus(status) == status >= 400 /\ status < 600
Is2xx(status) == status >= 200 /\ status < 300

\* ------------------------------------------------------- URLs (pure)
\* A string is the sequence of its characters; "a" stands for every character
\* that is not a slash.
Chars == {"a", "/"}
Strings == UNION {[1..n -> Chars] : n \in 0..MaxLen}

\* str.rstrip("/") and str.lstrip("/").
RECURSIVE Rstrip(_)
Rstrip(s) ==
    IF s = <<>> THEN s
    ELSE IF s[Len(s)] = "/" THEN Rstrip(SubSeq(s, 1, Len(s) - 1)) ELSE s
RECURSIVE Lstrip(_)
Lstrip(s) ==
    IF s = <<>> THEN s
    ELSE IF Head(s) = "/" THEN Lstrip(Tail(s)) ELSE s

\* A URL built without stripping the endpoint.
RequestUrl_NoLstrip(base_url, endpoint) == base_url \o <<"/">> \o endpoint

\* _request of both clients: f"{self.base_url}/{endpoint.lstrip('/')}".
RequestUrl(base_url, endpoint) == base_url \o <<"/">> \o Lstrip(endpoint)

\* ------------------------------------------------- RestApiClient (pure)
\* RestApiClient.__init__'s default timeout.
DefaultTimeout == 10

\* kwargs.setdefault("timeout", self.timeout): a per-call timeout (0: none
\* given) is kept, otherwise the client's own is used.
RestEffectiveTimeout(callTimeout, selfTimeout) ==
    IF callTimeout # 0 THEN callTimeout ELSE selfTimeout

\* A _request whose HTTPError is not caught.
RestRequestOutcome_HTTPErrorEscapes(net) ==
    IF net.net = "Timeout" THEN RetNone
    ELSE IF net.net = "ConnectionError" THEN RetNone
    ELSE IF RaisesForStatus(net.status) THEN Raise("HTTPError", "", net.status)
    ELSE RetResponse(net.status, net.body)

\* RestApiClient._request: the response when the round trip completes and
\* raise_for_status does not raise; None from each of the four except clauses.
RestRequestOutcome(net) ==
    IF net.net = "Timeout" THEN RetNone
    ELSE IF net.net = "ConnectionError" THEN RetNone
    ELSE IF RaisesForStatus(net.status) THEN RetNone
    ELSE RetResponse(net.status, net.body)

\* What main() writes as the body: nothing, the parsed JSON, or the raw text.
Printed(kind, body) == [kind |-> kind, body |-> body]
NotPrinted == Printed("none", TextBody)

\* `if response:` in main(): None is false, a Response is true when it is ok
\* (its status is below 400).
RestTruthy(out) == out.val = "Response" /\ ~RaisesForStatus(out.status)

\* A _print_response without the except clause.
RestPrintResponse_NoFallback(out) ==
    IF ~RestTruthy(out) THEN NotPrinted
    ELSE IF out.body.json THEN Printed("json", out.body)
    ELSE Printed("JSONDecodeError", TextBody)

\* main() and _print_response: response.json() dumped, response.text when
\* json() raises JSONDecodeError; nothing is printed for a false response.
RestPrintResponse(out) ==
    IF ~RestTruthy(out) THEN NotPrinted
    ELSE IF out.body.json THEN Printed("json", out.body)
    ELSE Printed("text", out.body)

\* main(): sys.exit(1) when the response is false.
RestExitCode(out) == IF RestTruthy(out) THEN 0 ELSE 1

\* ------------------------------------------------ SupersetClient (pure)
\* A _request that catches the transport's exceptions as RestApiClient does.
SupersetRequestOutcome_Swallow(net) ==
    IF net.net = "Timeout" THEN RetNone
    ELSE IF net.net = "ConnectionError" THEN RetNone
    ELSE RetResponse(net.status, net.body)

\* SupersetClient._request: no try/except and no raise_for_status, so an
\* exception of the transport propagates and every response is returned.
SupersetRequestOutcome(net) ==
    IF net.net = "Timeout" THEN Raise("Timeout", "", 0)
    ELSE IF net.net = "ConnectionError" THEN Raise("ConnectionError", "", 0)
    ELSE RetResponse(net.status, net.body)

\* A login half without raise_for_status.
AuthenticateLogin_NoRaiseForStatus(net) ==
    LET r == SupersetRequestOutcome(net) IN
    IF r.out = "raise" THEN r
    ELSE IF ~r.body.json THEN Raise("JSONDecodeError", "", 0)
    ELSE IF r.body.access_token = "" THEN Raise("RuntimeError", "access_token", 0)
    ELSE RetToken(r.body.access_token)

\* A login half that does not check the token it read.
AuthenticateLogin_NoTokenCheck(net) ==
    LET r == SupersetRequestOutcome(net) IN
    IF r.out = "raise" THEN r
    ELSE IF RaisesForStatus(r.status) THEN Raise("HTTPError", "", r.status)
    ELSE IF ~r.body.json THEN Raise("JSONDecodeError", "", 0)
    ELSE RetToken(r.body.access_token)

\* _authenticate, the login half: post, raise_for_status, json(), the token check.
AuthenticateLogin(net) ==
    LET r == SupersetRequestOutcome(net) IN
    IF r.out = "raise" THEN r
    ELSE IF RaisesForStatus(r.status) THEN Raise("HTTPError", "", r.status)
    ELSE IF ~r.body.json THEN Raise("JSONDecodeError", "", 0)
    ELSE IF r.body.access_token = "" THEN Raise("RuntimeError", "access_token", 0)
    ELSE RetToken(r.body.access_token)

\* A CSRF half without raise_for_status.
AuthenticateCsrf_NoRaiseForStatus(net) ==
    LET r == SupersetRequestOutcome(net) IN
    IF r.out = "raise" THEN r
    ELSE IF ~r.body.json THEN Raise("JSONDecodeError", "", 0)
    ELSE IF r.body.csrf = "" THEN Raise("RuntimeError", "csrf_token", 0)
    ELSE RetToken(r.body.csrf)

\* A CSRF half that does not check the token it read.
AuthenticateCsrf_NoTokenCheck(net) ==
    LET r == SupersetRequestOutcome(net) IN
    IF r.out = "raise" THEN r
    ELSE IF RaisesForStatus(r.status) THEN Raise("HTTPError", "", r.status)
    ELSE IF ~r.body.json THEN Raise("JSONDecodeError", "", 0)
    ELSE RetToken(r.body.csrf)

\* _authenticate, the CSRF half: get, raise_for_status, json(), the token check.
AuthenticateCsrf(net) ==
    LET r == SupersetRequestOutcome(net) IN
    IF r.out = "raise" THEN r
    ELSE IF RaisesForStatus(r.status) THEN Raise("HTTPError", "", r.status)
    ELSE IF ~r.body.json THEN Raise("JSONDecodeError", "", 0)
    ELSE IF r.body.csrf = "" THEN Raise("RuntimeError", "csrf_token", 0)
    ELSE RetToken(r.body.csrf)

\* set_auth_token: the Authorization header value.
AuthHeader(token) == "Bearer " \o token

\* A merge in which the session's header wins over the caller's.
MergeHeaders_SessionWins(session, own) ==
    [auth |-> IF session.auth # "" THEN session.auth ELSE own.auth,
     csrf |-> IF session.csrf # "" THEN session.csrf ELSE own.csrf]

\* session.request(method, url, **kwargs) with headers= in kwargs: requests
\* merges the two mappings and the per-call value replaces the session's for a
\* key both carry ("" stands for a key that is absent).
MergeHeaders(session, own) ==
    [auth |-> IF own.auth # "" THEN own.auth ELSE session.auth,
     csrf |-> IF own.csrf # "" THEN own.csrf ELSE session.csrf]

\* SupersetClient._request passes kwargs on as they are: a timeout= of the
\* caller (0: none given) reaches the transport, self.timeout never does.
SupersetEffectiveTimeout(callTimeout, selfTimeout) == callTimeout

\* The connection pool of a requests.Session: "idle" before any connection,
\* "open" while it keeps one, "closed" once Session.close() has released it,
\* "reopened" when a request after a close() has made a connection again (a
\* closed Session stays usable).  A round trip that is answered leaves its
\* connection in the pool; a timeout or connection error leaves none.
PoolAfter(p, net) ==
    IF net.net # "Response" THEN p
    ELSE IF p \in {"closed", "reopened"} THEN "reopened" ELSE "open"

\* A close() that skips a session it has closed before.
SessionClose_Once(p) == IF p \in {"closed", "reopened"} THEN p ELSE "closed"

\* close(): `if self.session:` holds for every Session object, so
\* session.close() runs on each call and releases what the pool keeps.
SessionClose(p) == "closed"

\* __exit__(self) called by the with statement with three arguments.
SupersetExitOutcome == Raise("TypeError", "__exit__", 0)

\* A branch that takes every 2xx status for a creation.
CreateDatasetBranch_Any2xx(net) ==
    LET r == SupersetRequestOutcome(net) IN
    IF r.out = "raise" THEN r
    ELSE IF Is2xx(r.status)
         THEN IF ~r.body.json THEN Raise("JSONDecodeError", "", 0)
              ELSE IF ~r.body.hasId THEN Raise("KeyError", "id", 0)
              ELSE RetId(r.body.id)
    ELSE IF r.status = 422 THEN Continue
    ELSE Raise("RuntimeError", "dataset_create", 0)

\* create_dataset after its POST: the branch on res.status_code.
CreateDatasetBranch(net) ==
    LET r == SupersetRequestOutcome(net) IN
    IF r.out = "raise" THEN r
    ELSE IF r.status = 201
         THEN IF ~r.body.json THEN Raise("JSONDecodeError", "", 0)
              ELSE IF ~r.body.hasId THEN Raise("KeyError", "id", 0)
              ELSE RetId(r.body.id)
    ELSE IF r.status = 422 THEN Continue
    ELSE Raise("RuntimeError", "dataset_create", 0)

\* A lookup that settles for the first of several matches.
IdByName_FirstMatch(net) ==
    LET r == SupersetRequestOutcome(net) IN
    IF r.out = "raise" THEN r
    ELSE IF ~r.body.json THEN Raise("JSONDecodeError", "", 0)
    ELSE IF Len(r.body.list) = 0 THEN Raise("ValueError", "not_found", 0)
    ELSE RetId(r.body.list[1])

\* get_database_id_by_name and get_dataset_id_by_name after their GET: the
\* status is not looked at; `res is None` never holds for a SupersetClient.
IdByName(net) ==
    LET r == SupersetRequestOutcome(net) IN
    IF r.out = "raise" THEN r
    ELSE IF ~r.body.json THEN Raise("JSONDecodeError", "", 0)
    ELSE IF Len(r.body.list) = 0 THEN Raise("ValueError", "not_found", 0)
    ELSE IF Len(r.body.list) > 1 THEN Raise("ValueError", "ambiguous", 0)
    ELSE RetId(r.body.list[1])

\* create_chart and create_dashboard after their POST: raise_for_status, json()["id"].
CreateOutcome(net) ==
    LET r == SupersetRequestOutcome(net) IN
    IF r.out = "raise" THEN r
    ELSE IF RaisesForStatus(r.status) THEN Raise("HTTPError", "", r.status)
    ELSE IF ~r.body.json THEN Raise("JSONDecodeError", "", 0)
    ELSE IF ~r.body.hasId THEN Raise("KeyError", "id", 0)
    ELSE RetId(r.body.id)

\* create_dashboard's payload: "charts" is the caller's list itself.
DashboardCharts(chart_ids) == chart_ids

\* ------------------------------------------------------- environment
\* The server's datasets: one per (database, schema, table name) at most, the
\* uniqueness the dataset endpoint enforces with its 422.
Keys == DBs \X Schemas \X Tables
InitId == CHOOSE f \in [Keys -> 1..Cardinality(Keys)] :
              \A j, k \in Keys : j # k => f[j] # f[k]
\* Ids in bodies that do not come from the server's datasets.
OtherIds == {7}

RECURSIVE SortedSeq(_)
SortedSeq(S) ==
    IF S = {} THEN <<>>
    ELSE LET m == CHOOSE x \in S : \A y \in S : x <= y
         IN <<m>> \o SortedSeq(S \ {m})

\* The ids the dataset list endpoint answers for a filter on table_name.
DatasetsNamed(ds, name) ==
    SortedSeq({ds[k] : k \in {j \in Keys : j[3] = name /\ ds[j] # 0}})

\* Round trips of the login and CSRF endpoints: any fault, any status, any body.
LoginNets ==
    FaultNets \cup {Resp(s, b) : s \in Statuses,
                    b \in ErrBodies \cup {TokenBody(t) : t \in Tokens}}
CsrfNets ==
    FaultNets \cup {Resp(s, b) : s \in Statuses,
                    b \in ErrBodies \cup {CsrfBody(t) : t \in CsrfTokens}}
\* Round trips of a forwarded get, post, put, patch or delete.
AnyNets == FaultNets \cup {Resp(s, ErrBody) : s \in Statuses}
\* Round trips of a forwarded request that carries arguments of the caller.
SessionNets == {TimeoutNet, Resp(200, ErrBody), Resp(401, ErrBody)}
\* Round trips of an endpoint whose success body carries an id.
IdNets ==
    FaultNets \cup {Resp(s, b) : s \in Statuses,
                    b \in ErrBodies \cup {IdBody(i) : i \in OtherIds}}

\* POST api/v1/dataset/ for `key`.  served: the server answers 201 with the new
\* id, or 422 when the dataset exists.  lost: the server does the same and the
\* reply does not arrive in time.  Otherwise the round trip fails or the server
\* answers something else (a 401, a 500, a 422 for another validation error).
Reply(net, ds, nid, faithful) ==
    [net |-> net, ds |-> ds, nid |-> nid, faithful |-> faithful]
ServeCreate(ds, nid, key) ==
    IF ds[key] # 0 THEN Reply(Resp(422, ErrBody), ds, nid, TRUE)
    ELSE Reply(Resp(201, IdBody(nid)), [ds EXCEPT ![key] = nid], nid + 1, TRUE)
CreateReplies(ds, nid, key) ==
    LET served == ServeCreate(ds, nid, key) IN
    {served, Reply(TimeoutNet, served.ds, served.nid, FALSE)}
    \cup {Reply(n, ds, nid, FALSE) : n \in IdNets}

\* GET api/v1/dataset/?q=...: the server's list, or a failed round trip or an
\* error answer.
LookupReplies(ds, nid, list) ==
    {Reply(Resp(200, ListBody(list)), ds, nid, TRUE)}
    \cup {Reply(n, ds, nid, FALSE) :
            n \in FaultNets \cup {Resp(s, b) : s \in Statuses, b \in ErrBodies}}

\* GET api/v1/database/?q=...: the databases are not modelled, any list comes back.
DbLists == {<<>>, <<1>>, <<2>>, <<1, 2>>}
DbLookupNets ==
    {Resp(200, ListBody(l)) : l \in DbLists}
    \cup FaultNets \cup {Resp(s, b) : s \in Statuses, b \in ErrBodies}

\* ------------------------------------------------------------- state
VARIABLES
    prog,       \* which program runs: "rest" (rest_api_client.py main) or "superset"
    pc,         \* per SupersetClient: absent, new, csrf, failed, ready, lookup, left
    hdr,        \* per SupersetClient: session.headers' Authorization and X-CSRFToken
    log,        \* per SupersetClient: the requests sent, in order (the verb of a
                \* forwarded request is kept in cur.method, "*" in the log)
    res,        \* per SupersetClient: what the last finished call handed its caller
    cur,        \* per SupersetClient: the call in progress or last finished
    datasets,   \* the server: key -> dataset id, 0 when there is none
    nextId,     \* the server: the next dataset id
    rest,       \* the RestApiClient run
    pool,       \* per SupersetClient: the connection pool of its requests.Session
    join        \* a URL being built: base_url, endpoint and the URL requested

vars == <<prog, pc, hdr, log, res, cur, datasets, nextId, rest, pool, join>>

NoHeaders == [auth |-> "", csrf |-> ""]
\* A request as it leaves: the headers it carries (session headers merged with
\* the caller's own), the caller's own headers, and its timeout (0: none).
SentWith(method, ep, h, own, callTimeout) ==
    [method |-> method, ep |-> ep, auth |-> MergeHeaders(h, own).auth,
     csrf |-> MergeHeaders(h, own).csrf, own |-> own,
     timeout |-> SupersetEffectiveTimeout(callTimeout, DefaultTimeout)]
\* A request of the client's own code: no headers= and no timeout= are passed.
Sent(method, ep, h) == SentWith(method, ep, h, NoHeaders, 0)
\* prior: what the call before handed back, kept when that call was a
\* create_dataset with the same arguments that the server answered throughout.
Call(op, method, db, table, schema, name, req1, req2, faithful, prior) ==
    [op |-> op, method |-> method, db |-> db, table |-> table, schema |-> schema,
     name |-> name, req1 |-> req1, req2 |-> req2, faithful |-> faithful,
     prior |-> prior, charts |-> <<>>, payload |-> <<>>, before |-> ""]
\* close(), with the pool as the call found it.
CloseCall(p) ==
    [Call("close", "", 0, "", "", "", NoNet, NoNet, TRUE, NoOutcome) EXCEPT !.before = p]
\* create_dashboard(title, chart_ids) and the "charts" of the payload it posts.
DashboardCall(chart_ids, net) ==
    [Call("create_dashboard", "", 0, "", "", "", net, NoNet, TRUE, NoOutcome)
        EXCEPT !.charts = chart_ids, !.payload = DashboardCharts(chart_ids)]
NoCall == Call("none", "", 0, "", "", "", NoNet, NoNet, TRUE, NoOutcome)
NoJoin == [by |-> "none", base |-> <<>>, endpoint |-> <<>>, url |-> <<>>]
RestIdle ==
    [pc |-> "start", method |-> "", timeout |-> 0, net |-> NoNet, out |-> NoOutcome,
     printed |-> NotPrinted, code |-> 0, pool |-> "idle"]

Init ==
    /\ prog \in {"rest", "superset"}
    /\ pc = [c \in Clients |-> IF prog = "superset" /\ c = 1 THEN "new" ELSE "absent"]
    /\ hdr = [c \in Clients |-> NoHeaders]
    /\ log = [c \in Clients |-> <<>>]
    /\ res = [c \in Clients |-> NoOutcome]
    /\ cur = [c \in Clients |-> NoCall]
    /\ \E S \in SUBSET Keys :
          datasets = [k \in Keys |-> IF k \in S /\ prog = "superset" THEN InitId[k] ELSE 0]
    /\ nextId = Cardinality(Keys) + 1
    /\ rest = RestIdle
    /\ pool = [c \in Clients |-> "idle"]
    /\ join = NoJoin

\* ------------------------------------------------------------ actions
\* rest_api_client.py main(): build the client, send one request, print the
\* response or exit with 1, and leave the with: __exit__ calls close().
RestMain ==
    /\ prog = "rest" /\ rest.pc = "start"
    /\ \E m \in Methods, t \in TimeoutArgs,
          net \in FaultNets \cup {Resp(s, b) : s \in Statuses, b \in ErrBodies} :
          rest' = [pc |-> "done", method |-> m,
                   timeout |-> RestEffectiveTimeout(0, IF t # 0 THEN t ELSE DefaultTimeout),
                   net |-> net, out |-> RestRequestOutcome(net),
                   printed |-> RestPrintResponse(RestRequestOutcome(net)),
                   code |-> RestExitCode(RestRequestOutcome(net)),
                   pool |-> SessionClose(PoolAfter("idle", net))]
    /\ UNCHANGED <<prog, pc, hdr, log, res, cur, datasets, nextId, pool, join>>

\* SupersetClient.__init__ up to the end of the login round trip.
Login(c) ==
    /\ pc[c] = "new"
    /\ \E net \in LoginNets :
         LET r == AuthenticateLogin(net) IN
         /\ log' = [log EXCEPT ![c] = Append(@, Sent("POST", "login", hdr[c]))]
         /\ pool' = [pool EXCEPT ![c] = PoolAfter(@, net)]
         /\ cur' = [cur EXCEPT ![c] =
                      Call("__init__", "", 0, "", "", "", net, NoNet, TRUE, NoOutcome)]
         /\ IF r.out = "ret"
            THEN /\ hdr' = [hdr EXCEPT ![c].auth = AuthHeader(r.token)]
                 /\ pc' = [pc EXCEPT ![c] = "csrf"]
                 /\ UNCHANGED res
            ELSE /\ pc' = [pc EXCEPT ![c] = "failed"]
                 /\ res' = [res EXCEPT ![c] = r]
                 /\ UNCHANGED hdr
    /\ UNCHANGED <<prog, datasets, nextId, rest, join>>

\* A CSRF step that takes the bearer token back when it fails.
Csrf_RollsBack(c) ==
    /\ pc[c] = "csrf"
    /\ \E net \in CsrfNets :
         LET r == AuthenticateCsrf(net) IN
         /\ log' = [log EXCEPT ![c] = Append(@, Sent("GET", "csrf_token", hdr[c]))]
         /\ pool' = [pool EXCEPT ![c] = PoolAfter(@, net)]
         /\ cur' = [cur EXCEPT ![c].req2 = net]
         /\ IF r.out = "ret"
            THEN /\ hdr' = [hdr EXCEPT ![c].csrf = r.token]
                 /\ pc' = [pc EXCEPT ![c] = "ready"]
                 /\ res' = [res EXCEPT ![c] = RetSession]
            ELSE /\ pc' = [pc EXCEPT ![c] = "failed"]
                 /\ res' = [res EXCEPT ![c] = r]
                 /\ hdr' = [hdr EXCEPT ![c] = NoHeaders]
    /\ UNCHANGED <<prog, datasets, nextId, rest, join>>

\* The rest of __init__: the CSRF round trip, then the return to the caller.
Csrf(c) ==
    /\ pc[c] = "csrf"
    /\ \E net \in CsrfNets :
         LET r == AuthenticateCsrf(net) IN
         /\ log' = [log EXCEPT ![c] = Append(@, Sent("GET", "csrf_token", hdr[c]))]
         /\ pool' = [pool EXCEPT ![c] = PoolAfter(@, net)]
         /\ cur' = [cur EXCEPT ![c].req2 = net]
         /\ IF r.out = "ret"
            THEN /\ hdr' = [hdr EXCEPT ![c].csrf = r.token]
                 /\ pc' = [pc EXCEPT ![c] = "ready"]
                 /\ res' = [res EXCEPT ![c] = RetSession]
            ELSE /\ pc' = [pc EXCEPT ![c] = "failed"]
                 /\ res' = [res EXCEPT ![c] = r]
                 /\ UNCHANGED hdr
    /\ UNCHANGED <<prog, datasets, nextId, rest, join>>

\* A forwarded request that logs in again when it is answered 401.
Request_Reauthenticates(c) ==
    /\ pc[c] = "ready" /\ Len(log[c]) + 2 <= MaxReq
    /\ \E m \in Methods, net \in AnyNets :
         /\ log' = [log EXCEPT ![c] =
                      IF net.status = 401
                      THEN Append(Append(@, Sent("*", "any", hdr[c])),
                                  Sent("POST", "login", hdr[c]))
                      ELSE Append(@, Sent("*", "any", hdr[c]))]
         /\ pool' = [pool EXCEPT ![c] = PoolAfter(@, net)]
         /\ cur' = [cur EXCEPT ![c] = Call("request", m, 0, "", "", "", net, NoNet, TRUE,
                                          NoOutcome)]
         /\ res' = [res EXCEPT ![c] = SupersetRequestOutcome(net)]
    /\ UNCHANGED <<prog, pc, hdr, datasets, nextId, rest, join>>

\* get, post, put, patch, delete of an authenticated session.
Request(c) ==
    /\ pc[c] = "ready" /\ Len(log[c]) < MaxReq
    /\ \E m \in Methods, net \in AnyNets :
         /\ log' = [log EXCEPT ![c] = Append(@, Sent("*", "any", hdr[c]))]
         /\ pool' = [pool EXCEPT ![c] = PoolAfter(@, net)]
         /\ cur' = [cur EXCEPT ![c] = Call("request", m, 0, "", "", "", net, NoNet, TRUE,
                                          NoOutcome)]
         /\ res' = [res EXCEPT ![c] = SupersetRequestOutcome(net)]
    /\ UNCHANGED <<prog, pc, hdr, datasets, nextId, rest, join>>

\* What the finished call of c handed back, when it was create_dataset(db, table,
\* schema) and the server answered each of its requests.
PriorOf(c, db, table, schema) ==
    IF /\ cur[c].op = "create_dataset" /\ cur[c].faithful
       /\ cur[c].db = db /\ cur[c].table = table /\ cur[c].schema = schema
    THEN res[c] ELSE NoOutcome

\* create_dataset up to the end of its POST round trip and the branch on its status.
CreateDatasetPost(c) ==
    /\ pc[c] = "ready" /\ Len(log[c]) + 2 <= MaxReq
    /\ \E db \in DBs, table \in Tables, schema \in Schemas :
       \E rep \in CreateReplies(datasets, nextId, <<db, schema, table>>) :
         LET r == CreateDatasetBranch(rep.net) IN
         /\ log' = [log EXCEPT ![c] = Append(@, Sent("POST", "dataset", hdr[c]))]
         /\ pool' = [pool EXCEPT ![c] = PoolAfter(@, rep.net)]
         /\ cur' = [cur EXCEPT ![c] = Call("create_dataset", "", db, table, schema,
                                          table, rep.net, NoNet, rep.faithful,
                                          PriorOf(c, db, table, schema))]
         /\ datasets' = rep.ds
         /\ nextId' = rep.nid
         /\ IF r.out = "lookup"
            THEN /\ pc' = [pc EXCEPT ![c] = "lookup"]
                 /\ res' = [res EXCEPT ![c] = NoOutcome]
            ELSE /\ res' = [res EXCEPT ![c] = r]
                 /\ UNCHANGED pc
    /\ UNCHANGED <<prog, hdr, rest, join>>

\* A fallback lookup that hands back the first of several matches.
CreateDatasetLookup_FirstOfMany(c) ==
    /\ pc[c] = "lookup"
    /\ \E rep \in LookupReplies(datasets, nextId, DatasetsNamed(datasets, cur[c].name)) :
         /\ log' = [log EXCEPT ![c] = Append(@, Sent("GET", "dataset?q", hdr[c]))]
         /\ pool' = [pool EXCEPT ![c] = PoolAfter(@, rep.net)]
         /\ cur' = [cur EXCEPT ![c].req2 = rep.net,
                               ![c].faithful = @ /\ rep.faithful]
         /\ res' = [res EXCEPT ![c] = IdByName_FirstMatch(rep.net)]
         /\ pc' = [pc EXCEPT ![c] = "ready"]
    /\ UNCHANGED <<prog, hdr, datasets, nextId, rest, join>>

\* create_dataset's 422 branch: get_dataset_id_by_name(table_name), then the return.
CreateDatasetLookup(c) ==
    /\ pc[c] = "lookup"
    /\ \E rep \in LookupReplies(datasets, nextId, DatasetsNamed(datasets, cur[c].name)) :
         /\ log' = [log EXCEPT ![c] = Append(@, Sent("GET", "dataset?q", hdr[c]))]
         /\ pool' = [pool EXCEPT ![c] = PoolAfter(@, rep.net)]
         /\ cur' = [cur EXCEPT ![c].req2 = rep.net,
                               ![c].faithful = @ /\ rep.faithful]
         /\ res' = [res EXCEPT ![c] = IdByName(rep.net)]
         /\ pc' = [pc EXCEPT ![c] = "ready"]
    /\ UNCHANGED <<prog, hdr, datasets, nextId, rest, join>>

\* get_dataset_id_by_name called by the caller.
GetDatasetIdByName(c) ==
    /\ pc[c] = "ready" /\ Len(log[c]) < MaxReq
    /\ \E name \in Names :
       \E rep \in LookupReplies(datasets, nextId, DatasetsNamed(datasets, name)) :
         /\ log' = [log EXCEPT ![c] = Append(@, Sent("GET", "dataset?q", hdr[c]))]
         /\ pool' = [pool EXCEPT ![c] = PoolAfter(@, rep.net)]
         /\ cur' = [cur EXCEPT ![c] = Call("get_dataset_id_by_name", "", 0, "", "",
                                          name, rep.net, NoNet, rep.faithful,
                                          NoOutcome)]
         /\ res' = [res EXCEPT ![c] = IdByName(rep.net)]
    /\ UNCHANGED <<prog, pc, hdr, datasets, nextId, rest, join>>

\* A lookup that sends its GET a second time when the first one fails.
GetDatabaseIdByName_Retry(c) ==
    /\ pc[c] = "ready" /\ Len(log[c]) + 2 <= MaxReq
    /\ \E name \in DbNames, net \in DbLookupNets :
         /\ log' = [log EXCEPT ![c] =
                      IF net \in FaultNets
                      THEN Append(Append(@, Sent("GET", "database?q", hdr[c])),
                                  Sent("GET", "database?q", hdr[c]))
                      ELSE Append(@, Sent("GET", "database?q", hdr[c]))]
         /\ pool' = [pool EXCEPT ![c] = PoolAfter(@, net)]
         /\ cur' = [cur EXCEPT ![c] = Call("get_database_id_by_name", "", 0, "", "",
                                          name, net, NoNet, net.status = 200,
                                          NoOutcome)]
         /\ res' = [res EXCEPT ![c] = IdByName(net)]
    /\ UNCHANGED <<prog, pc, hdr, datasets, nextId, rest, join>>

\* get_database_id_by_name.
GetDatabaseIdByName(c) ==
    /\ pc[c] = "ready" /\ Len(log[c]) < MaxReq
    /\ \E name \in DbNames, net \in DbLookupNets :
         /\ log' = [log EXCEPT ![c] = Append(@, Sent("GET", "database?q", hdr[c]))]
         /\ pool' = [pool EXCEPT ![c] = PoolAfter(@, net)]
         /\ cur' = [cur EXCEPT ![c] = Call("get_database_id_by_name", "", 0, "", "",
                                          name, net, NoNet, net.status = 200,
                                          NoOutcome)]
         /\ res' = [res EXCEPT ![c] = IdByName(net)]
    /\ UNCHANGED <<prog, pc, hdr, datasets, nextId, rest, join>>

\* A create_chart that drops the bearer token when it is answered 401.
CreateChart_DropsTokenOn401(c) ==
    /\ pc[c] = "ready" /\ Len(log[c]) < MaxReq
    /\ \E net \in IdNets :
         /\ log' = [log EXCEPT ![c] = Append(@, Sent("POST", "chart", hdr[c]))]
         /\ pool' = [pool EXCEPT ![c] = PoolAfter(@, net)]
         /\ cur' = [cur EXCEPT ![c] = Call("create_chart", "", 0, "", "", "", net,
                                          NoNet, TRUE, NoOutcome)]
         /\ res' = [res EXCEPT ![c] = CreateOutcome(net)]
         /\ hdr' = [hdr EXCEPT ![c].auth = IF net.status = 401 THEN "" ELSE @]
    /\ UNCHANGED <<prog, pc, datasets, nextId, rest, join>>

\* create_chart.
CreateChart(c) ==
    /\ pc[c] = "ready" /\ Len(log[c]) < MaxReq
    /\ \E net \in IdNets :
         /\ log' = [log EXCEPT ![c] = Append(@, Sent("POST", "chart", hdr[c]))]
         /\ pool' = [pool EXCEPT ![c] = PoolAfter(@, net)]
         /\ cur' = [cur EXCEPT ![c] = Call("create_chart", "", 0, "", "", "", net,
                                          NoNet, TRUE, NoOutcome)]
         /\ res' = [res EXCEPT ![c] = CreateOutcome(net)]
    /\ UNCHANGED <<prog, pc, hdr, datasets, nextId, rest, join>>

\* create_dashboard.
CreateDashboard(c) ==
    /\ pc[c] = "ready" /\ Len(log[c]) < MaxReq
    /\ \E chart_ids \in ChartLists, net \in IdNets :
         /\ log' = [log EXCEPT ![c] = Append(@, Sent("POST", "dashboard", hdr[c]))]
         /\ pool' = [pool EXCEPT ![c] = PoolAfter(@, net)]
         /\ cur' = [cur EXCEPT ![c] = DashboardCall(chart_ids, net)]
         /\ res' = [res EXCEPT ![c] = CreateOutcome(net)]
    /\ UNCHANGED <<prog, pc, hdr, datasets, nextId, rest, join>>

\* get, post, put, patch, delete called with headers= and timeout= of the caller.
RequestWith(c) ==
    /\ pc[c] = "ready" /\ Len(log[c]) < MaxReq
    /\ \E m \in Methods, net \in SessionNets, own \in OwnHeaders, t \in TimeoutArgs :
         /\ log' = [log EXCEPT ![c] = Append(@, SentWith("*", "any", hdr[c], own, t))]
         /\ pool' = [pool EXCEPT ![c] = PoolAfter(@, net)]
         /\ cur' = [cur EXCEPT ![c] = Call("request", m, 0, "", "", "", net, NoNet, TRUE,
                                          NoOutcome)]
         /\ res' = [res EXCEPT ![c] = SupersetRequestOutcome(net)]
    /\ UNCHANGED <<prog, pc, hdr, datasets, nextId, rest, join>>

\* close(): session.close(); the headers, and with them the tokens, stay.
Close(c) ==
    /\ pc[c] = "ready"
    /\ pool' = [pool EXCEPT ![c] = SessionClose(@)]
    /\ cur' = [cur EXCEPT ![c] = CloseCall(pool[c])]
    /\ res' = [res EXCEPT ![c] = RetNone]
    /\ UNCHANGED <<prog, pc, hdr, log, datasets, nextId, rest, join>>

\* Control leaves `with SupersetClient(...) as c:`, normally or by the
\* exception of the block's last call (kept as prior): the interpreter calls
\* __exit__(exc_type, exc_val, exc_tb), which __exit__(self) does not take, so
\* TypeError is raised before close() is reached.
ExitWith(c) ==
    /\ pc[c] = "ready"
    /\ pc' = [pc EXCEPT ![c] = "left"]
    /\ cur' = [cur EXCEPT ![c] = Call("__exit__", "", 0, "", "", "", NoNet, NoNet, TRUE,
                                     res[c])]
    /\ res' = [res EXCEPT ![c] = SupersetExitOutcome]
    /\ UNCHANGED <<prog, hdr, log, datasets, nextId, rest, pool, join>>

Next ==
    \/ RestMain
    \/ \E c \in Clients : Login(c)
    \/ \E c \in Clients : Csrf(c)
    \/ \E c \in Clients : Request(c)
    \/ \E c \in Clients : CreateDatasetPost(c)
    \/ \E c \in Clients : CreateDatasetLookup(c)
    \/ \E c \in Clients : GetDatasetIdByName(c)
    \/ \E c \in Clients : GetDatabaseIdByName(c)
    \/ \E c \in Clients : CreateChart(c)
    \/ \E c \in Clients : CreateDashboard(c)

Spec == Init /\ [][Next]_vars

\* The URL of a request: the constructor keeps base_url.rstrip("/") as
\* self.base_url and _request joins the endpoint to it.
InitUrl ==
    /\ prog = "url"
    /\ pc = [c \in Clients |-> "absent"]
    /\ hdr = [c \in Clients |-> NoHeaders]
    /\ log = [c \in Clients |-> <<>>]
    /\ res = [c \in Clients |-> NoOutcome]
    /\ cur = [c \in Clients |-> NoCall]
    /\ datasets = [k \in Keys |-> 0]
    /\ nextId = Cardinality(Keys) + 1
    /\ rest = RestIdle
    /\ pool = [c \in Clients |-> "idle"]
    /\ \E b \in Strings, e \in Strings :
          join = [by |-> "none", base |-> b, endpoint |-> e, url |-> <<>>]
RestJoin ==
    /\ prog = "url" /\ join.by = "none"
    /\ join' = [join EXCEPT !.by = "RestApiClient",
                            !.url = RequestUrl(Rstrip(join.base), join.endpoint)]
    /\ UNCHANGED <<prog, pc, hdr, log, res, cur, datasets, nextId, rest, pool>>
SupersetJoin ==
    /\ prog = "url" /\ join.by = "none"
    /\ join' = [join EXCEPT !.by = "SupersetClient",
                            !.url = RequestUrl(Rstrip(join.base), join.endpoint)]
    /\ UNCHANGED <<prog, pc, hdr, log, res, cur, datasets, nextId, rest, pool>>
NextUrl == RestJoin \/ SupersetJoin
SpecUrl == InitUrl /\ [][NextUrl]_vars

\* Two sessions, each built by its own constructor, whose callers run
\* create_dataset with the same arguments at the same time.  The server
\* answers every request: 201 to the POST that creates the dataset and 422
\* to a POST that finds it, one POST at a time, and its list to a lookup.
InitRace ==
    /\ prog = "superset"
    /\ pc = [c \in Clients |-> "new"]
    /\ hdr = [c \in Clients |-> NoHeaders]
    /\ log = [c \in Clients |-> <<>>]
    /\ res = [c \in Clients |-> NoOutcome]
    /\ cur = [c \in Clients |-> NoCall]
    /\ \E S \in SUBSET Keys : datasets = [k \in Keys |-> IF k \in S THEN InitId[k] ELSE 0]
    /\ nextId = Cardinality(Keys) + 1
    /\ rest = RestIdle
    /\ pool = [c \in Clients |-> "idle"]
    /\ join = NoJoin
\* The handshake of c, answered with the tokens.
RaceLogin(c) ==
    /\ Login(c)
    /\ \E t \in Tokens : cur'[c].req1 = Resp(200, TokenBody(t))
RaceCsrf(c) ==
    /\ Csrf(c)
    /\ \E t \in CsrfTokens : cur'[c].req2 = Resp(200, CsrfBody(t))
\* The one create_dataset call of c: its POST, with the arguments of the
\* other session's call when that one has begun.
RacePost(c) ==
    /\ cur[c].op = "__init__"
    /\ CreateDatasetPost(c)
    /\ cur'[c].faithful
    /\ \A d \in Clients \ {c} :
          cur[d].op = "create_dataset" =>
              /\ cur'[c].db = cur[d].db /\ cur'[c].schema = cur[d].schema
              /\ cur'[c].table = cur[d].table
RaceLookup(c) ==
    /\ CreateDatasetLookup(c)
    /\ cur'[c].faithful
NextRace ==
    \/ \E c \in Clients : RaceLogin(c)
    \/ \E c \in Clients : RaceCsrf(c)
    \/ \E c \in Clients : RacePost(c)
    \/ \E c \in Clients : RaceLookup(c)
SpecRace == InitRace /\ [][NextRace]_vars

\* A SupersetClient whose caller forwards requests with arguments of its own
\* and tears the session down: by close(), or by leaving a with-block.
InitSession == Init /\ prog = "superset" /\ datasets = [k \in Keys |-> 0]
NextSession ==
    \/ \E c \in Clients : Login(c)
    \/ \E c \in Clients : Csrf(c)
    \/ \E c \in Clients : RequestWith(c)
    \/ \E c \in Clients : Close(c)
    \/ \E c \in Clients : ExitWith(c)
SpecSession == InitSession /\ [][NextSession]_vars

\* ------------------------------------------------------------ claims
\* The caller holds the session object: the constructor has returned it.
Held(c) == pc[c] \in {"ready", "lookup"}
BearerValues == {AuthHeader(t) : t \in Tokens}

\* C1: whenever the caller holds a session returned by the constructor, the
\* session carries both the Authorization bearer header and the X-CSRFToken
\* header; a construction that is over with either header missing has raised
\* and the caller holds no session.
C1_NoPartialSession ==
    \A c \in Clients :
        /\ Held(c) => hdr[c].auth \in BearerValues /\ hdr[c].csrf \in CsrfTokens
        /\ (pc[c] \notin {"absent", "new", "csrf"} /\ (hdr[c].auth = "" \/ hdr[c].csrf = ""))
             => pc[c] = "failed" /\ res[c].out = "raise" /\ ~Held(c)
C1_Witness ==
    \E c \in Clients :
        /\ pc[c] = "ready" /\ cur[c].op = "__init__" /\ res[c] = RetSession
        /\ hdr[c].auth \in BearerValues /\ hdr[c].csrf \in CsrfTokens

\* C2: the login POST is the first request of a construction and is sent with
\* no credentials; the CSRF GET is the second, is sent only after the login
\* returned an access token and carries "Bearer <that token>"; X-CSRFToken is
\* attached only after the CSRF GET returned a value; every later request is
\* sent with both headers attached.
C2_HandshakeOrder ==
    \A c \in Clients :
        LET l == log[c] IN
        /\ Len(l) >= 1 => l[1] = Sent("POST", "login", NoHeaders)
        /\ Len(l) >= 2 =>
              /\ l[2].method = "GET" /\ l[2].ep = "csrf_token"
              /\ l[2].auth \in BearerValues /\ l[2].csrf = ""
              /\ cur[c].op = "__init__" =>
                    /\ cur[c].req1.net = "Response"
                    /\ cur[c].req1.body.access_token \in Tokens
                    /\ l[2].auth = AuthHeader(cur[c].req1.body.access_token)
        /\ hdr[c].auth # "" => Len(l) >= 1
        /\ hdr[c].csrf # "" =>
              /\ Len(l) >= 2
              /\ cur[c].op = "__init__" =>
                    cur[c].req2.net = "Response" /\ cur[c].req2.body.csrf = hdr[c].csrf
        /\ \A i \in 3..Len(l) :
              /\ l[i].ep \notin {"login", "csrf_token"}
              /\ l[i].auth \in BearerValues /\ l[i].csrf \in CsrfTokens
C2_Witness ==
    \E c \in Clients :
        /\ Len(log[c]) >= 3
        /\ log[c][2].auth \in BearerValues
        /\ log[c][3].csrf \in CsrfTokens

\* Every step a SupersetClient can take.
ClientStep(c) ==
    \/ Login(c) \/ Csrf(c) \/ Request(c) \/ CreateDatasetPost(c)
    \/ CreateDatasetLookup(c) \/ GetDatasetIdByName(c) \/ GetDatabaseIdByName(c)
    \/ CreateChart(c) \/ CreateDashboard(c)
    \/ RequestWith(c) \/ Close(c) \/ ExitWith(c)

\* The exception a handshake round trip `net` ends in, by its kind: the
\* transport's own for a timeout or a connection error, HTTPError with the
\* status for a 4xx or 5xx, a decode error for a body that is not JSON, and
\* RuntimeError with message `msg` only for a JSON body without the token.
HandshakeErrorOf(r, net, tokenMissing, msg) ==
    /\ r.out = "raise"
    /\ r.exc = "Timeout" <=> net.net = "Timeout"
    /\ r.exc = "ConnectionError" <=> net.net = "ConnectionError"
    /\ r.exc = "HTTPError" <=> (net.net = "Response" /\ RaisesForStatus(net.status))
    /\ r.exc = "HTTPError" => r.status = net.status
    /\ r.exc = "JSONDecodeError" <=>
          (net.net = "Response" /\ ~RaisesForStatus(net.status) /\ ~net.body.json)
    /\ r.exc = "RuntimeError" <=>
          (net.net = "Response" /\ ~RaisesForStatus(net.status) /\ net.body.json
           /\ tokenMissing)
    /\ r.exc = "RuntimeError" => r.msg = msg
    /\ r.exc \in {"Timeout", "ConnectionError", "HTTPError", "JSONDecodeError", "RuntimeError"}

\* The login round trip of a construction is over and, as the claim has it, failed:
\* a timeout, a transport fault, a non-2xx status, or a body without access token.
LoginFailed(c) ==
    /\ cur[c].op = "__init__" /\ cur[c].req1.net # "none"
    /\ \/ cur[c].req1.net \in {"Timeout", "ConnectionError"}
       \/ ~Is2xx(cur[c].req1.status)
       \/ cur[c].req1.body.access_token = ""
\* The same with the statuses raise_for_status raises for.
LoginRaised(c) ==
    /\ cur[c].op = "__init__" /\ cur[c].req1.net # "none"
    /\ \/ cur[c].req1.net \in {"Timeout", "ConnectionError"}
       \/ RaisesForStatus(cur[c].req1.status)
       \/ cur[c].req1.body.access_token = ""

\* C3 as stated: a failed login ends the construction by raising the one
\* authentication error of the login step (in the code: the RuntimeError of
\* the access-token check), no CSRF request is sent, no session is returned.
C3_Original ==
    \A c \in Clients :
        LoginFailed(c) =>
            /\ pc[c] = "failed" /\ ~Held(c)
            /\ res[c] = Raise("RuntimeError", "access_token", 0)
            /\ Len(log[c]) = 1

\* C3 amended: a login that times out, hits a transport fault, is answered
\* 4xx/5xx or has a body without access token ends the construction by an
\* exception whose type depends on the failure (Timeout, ConnectionError,
\* HTTPError, a decode error, or the RuntimeError of the token check only for
\* a JSON body without token); no CSRF request is sent, no header is set, no
\* session is returned and the object takes no further step.
C3_LoginFailureRaises ==
    \A c \in Clients :
        LoginRaised(c) =>
            /\ pc[c] = "failed" /\ ~Held(c)
            /\ HandshakeErrorOf(res[c], cur[c].req1,
                                cur[c].req1.body.access_token = "", "access_token")
            /\ Len(log[c]) = 1
            /\ hdr[c] = NoHeaders
            /\ ~ENABLED ClientStep(c)
C3_Witness ==
    \E c \in Clients :
        /\ LoginRaised(c) /\ pc[c] = "failed"
        /\ cur[c].req1.net = "Timeout" /\ res[c].exc = "Timeout"
        /\ Len(log[c]) = 1

\* The CSRF round trip of a construction is over and, as the claim has it, failed.
CsrfFailed(c) ==
    /\ cur[c].op = "__init__" /\ cur[c].req2.net # "none"
    /\ \/ cur[c].req2.net \in {"Timeout", "ConnectionError"}
       \/ ~Is2xx(cur[c].req2.status)
       \/ cur[c].req2.body.csrf = ""
CsrfRaised(c) ==
    /\ cur[c].op = "__init__" /\ cur[c].req2.net # "none"
    /\ \/ cur[c].req2.net \in {"Timeout", "ConnectionError"}
       \/ RaisesForStatus(cur[c].req2.status)
       \/ cur[c].req2.body.csrf = ""

\* C4 as stated: a failed CSRF call ends the construction by raising the one
\* authentication error of the CSRF step (in the code: the RuntimeError of the
\* CSRF-token check), and the session is not Authenticated.
C4_Original ==
    \A c \in Clients :
        CsrfFailed(c) =>
            /\ pc[c] = "failed" /\ ~Held(c)
            /\ res[c] = Raise("RuntimeError", "csrf_token", 0)

\* C4 amended: a CSRF call that times out, hits a transport fault, is answered
\* 4xx/5xx or has a body without the CSRF value ends the construction by an
\* exception whose type depends on the failure (the RuntimeError of the token
\* check only for a JSON body without the value); X-CSRFToken is not set, no
\* session is returned and the object takes no further step, so it never
\* becomes Authenticated.
C4_CsrfFailureRaises ==
    \A c \in Clients :
        CsrfRaised(c) =>
            /\ pc[c] = "failed" /\ ~Held(c)
            /\ HandshakeErrorOf(res[c], cur[c].req2,
                                cur[c].req2.body.csrf = "", "csrf_token")
            /\ Len(log[c]) = 2
            /\ hdr[c].csrf = ""
            /\ ~ENABLED ClientStep(c)
C4_Witness ==
    \E c \in Clients :
        /\ CsrfRaised(c) /\ pc[c] = "failed"
        /\ cur[c].req2.net = "Response" /\ cur[c].req2.status = 401
        /\ res[c].exc = "HTTPError" /\ hdr[c].auth \in BearerValues

\* The last request of client c's log.
LastSent(c) == log[c][Len(log[c])]

\* C5: create_dataset branches on the status of its POST alone.  201: the id
\* of the POST body is returned and no lookup is sent.  422: the lookup by
\* table name is sent (it is the one step left while the call is in progress)
\* and what the call hands back is what the lookup yields, an id being the
\* single entry of its result.  Any other status: the provisioning error
\* (RuntimeError) is raised and no lookup is sent.
C5_CreateDatasetBranches ==
    \A c \in Clients :
        (cur[c].op = "create_dataset" /\ cur[c].req1.net = "Response") =>
            LET st == cur[c].req1.status
                b == cur[c].req1.body IN
            /\ st = 201 =>
                  /\ pc[c] = "ready" /\ cur[c].req2 = NoNet
                  /\ LastSent(c).method = "POST" /\ LastSent(c).ep = "dataset"
                  /\ (b.json /\ b.hasId) => res[c] = RetId(b.id)
                  /\ ~(b.json /\ b.hasId) => res[c].out = "raise"
            /\ st = 422 =>
                  /\ cur[c].name = cur[c].table
                  /\ \/ /\ pc[c] = "lookup" /\ cur[c].req2 = NoNet
                        /\ res[c] = NoOutcome
                        /\ ENABLED CreateDatasetLookup(c)
                        /\ ~ENABLED (Request(c) \/ CreateDatasetPost(c)
                                     \/ GetDatasetIdByName(c) \/ GetDatabaseIdByName(c)
                                     \/ CreateChart(c) \/ CreateDashboard(c))
                     \/ /\ pc[c] = "ready" /\ cur[c].req2 # NoNet
                        /\ LastSent(c).method = "GET" /\ LastSent(c).ep = "dataset?q"
                        /\ res[c].out \in {"ret", "raise"}
                        /\ res[c].out = "ret" =>
                              /\ cur[c].req2.net = "Response"
                              /\ cur[c].req2.body.list = <<res[c].id>>
                              /\ res[c] = RetId(res[c].id)
            /\ st \notin {201, 422} =>
                  /\ pc[c] = "ready" /\ cur[c].req2 = NoNet
                  /\ LastSent(c).method = "POST" /\ LastSent(c).ep = "dataset"
                  /\ res[c] = Raise("RuntimeError", "dataset_create", 0)
C5_Witness ==
    \E c \in Clients :
        /\ cur[c].op = "create_dataset" /\ cur[c].req1.net = "Response"
        /\ cur[c].req1.status = 422 /\ pc[c] = "ready"
        /\ res[c].out = "ret" /\ cur[c].req2.body.list = <<res[c].id>>

\* The dataset the arguments of client c's create_dataset call name.
CallKey(c) == <<cur[c].db, cur[c].schema, cur[c].table>>

\* C6: against a server that enforces dataset uniqueness and answers every
\* request (201 to a first creation, 422 to a repeated one, its list to the
\* lookup), a create_dataset call answered 201 returns the id of the one
\* dataset the server holds for its arguments, and a call that follows a
\* call with identical arguments that returned an id returns the same id.
C6_Idempotent ==
    \A c \in Clients :
        (cur[c].op = "create_dataset" /\ pc[c] = "ready" /\ cur[c].faithful) =>
            /\ cur[c].req1.status = 201 => res[c] = RetId(datasets[CallKey(c)])
            /\ cur[c].prior.out = "ret" =>
                  /\ res[c] = cur[c].prior
                  /\ res[c] = RetId(datasets[CallKey(c)])

\* C7: a lookup by name returns an id if and only if the result list of the
\* answer has exactly one entry, and then that entry's id; an empty list
\* raises the not-found error, a list of two or more the ambiguous error.
IsLookup(c) ==
    /\ cur[c].op \in {"get_database_id_by_name", "get_dataset_id_by_name"}
    /\ pc[c] = "ready"
C7_LookupZeroOneMany ==
    \A c \in Clients :
        IsLookup(c) =>
            LET n == cur[c].req1 IN
            /\ res[c].out = "ret" <=>
                  (n.net = "Response" /\ n.body.json /\ Len(n.body.list) = 1)
            /\ res[c].out = "ret" => res[c] = RetId(n.body.list[1])
            /\ (n.net = "Response" /\ n.body.json /\ Len(n.body.list) = 0)
                  => res[c] = Raise("ValueError", "not_found", 0)
            /\ (n.net = "Response" /\ n.body.json /\ Len(n.body.list) >= 2)
                  => res[c] = Raise("ValueError", "ambiguous", 0)
C7_Witness ==
    \E c \in Clients :
        /\ IsLookup(c) /\ cur[c].req1.net = "Response"
        /\ Len(cur[c].req1.body.list) = 2
        /\ res[c] = Raise("ValueError", "ambiguous", 0)

\* The RestApiClient run is over and its request was answered with a non-2xx status.
RestNon2xx ==
    rest.pc = "done" /\ rest.net.net = "Response" /\ ~Is2xx(rest.net.status)

Forwarded(c) == cur[c].op = "request" /\ pc[c] = "ready" /\ cur[c].method \in Methods

\* C9 as stated: a transport fault never escapes as an exception, neither on
\* the transport session nor forwarded through the authenticated session; the
\* call returns an outcome that names the fault, Timeout or transport error.
C9_Original ==
    /\ (rest.pc = "done" /\ rest.net \in FaultNets) =>
          rest.out.out = "ret" /\ rest.out.exc = rest.net.net
    /\ \A c \in Clients :
          (Forwarded(c) /\ cur[c].req1 \in FaultNets) =>
              res[c].out = "ret" /\ res[c].exc = cur[c].req1.net

\* C9 amended: on the transport session (RestApiClient) no transport fault
\* escapes as an exception, and a timeout and any other fault both yield None,
\* the same value a 4xx/5xx answer yields; forwarded through the authenticated
\* session (SupersetClient) the fault escapes: the transport's exception
\* reaches the caller, Timeout for a timeout and ConnectionError otherwise.
C9_FaultOutcomes ==
    /\ (rest.pc = "done" /\ rest.net \in FaultNets) => rest.out = RetNone
    /\ \A c \in Clients :
          (Forwarded(c) /\ cur[c].req1 \in FaultNets) =>
              res[c] = Raise(cur[c].req1.net, "", 0)
C9_Witness ==
    \E c \in Clients :
        /\ Forwarded(c) /\ cur[c].req1 = TimeoutNet
        /\ res[c].out = "raise" /\ res[c].exc = "Timeout"

\* The round trip that ended client c's last call.
LastNet(c) == IF cur[c].req2 # NoNet THEN cur[c].req2 ELSE cur[c].req1

\* C10: after authentication, a call of the session whose last request is
\* answered 401 or 403 never hands its caller a returned id or a not-found
\* or ambiguous-result error: what it returns is the response with that
\* status, and what it raises is an error of the answer.
C10_AuthErrorSurfaces ==
    \A c \in Clients :
        (/\ pc[c] = "ready" /\ cur[c].op \notin {"none", "__init__"}
         /\ LastNet(c).net = "Response" /\ LastNet(c).status \in {401, 403}) =>
            /\ res[c].val # "id"
            /\ res[c].msg \notin {"not_found", "ambiguous"}
            /\ res[c].out = "ret" =>
                  res[c] = RetResponse(LastNet(c).status, LastNet(c).body)
            /\ res[c].exc = "HTTPError" => res[c].status = LastNet(c).status

\* The requests of log l that went to endpoint ep.
CountEp(l, ep) == Cardinality({i \in 1..Len(l) : l[i].ep = ep})

\* C11: over any sequence of operations of a session the login endpoint and
\* the CSRF endpoint are each requested at most once, both exactly once and
\* as the first two requests when the caller holds the session; whatever a
\* later request is answered (a 401, a 403, a timeout), no handshake request
\* follows, and a construction that failed repeats no step either.
C11_HandshakeOnce ==
    \A c \in Clients :
        /\ CountEp(log[c], "login") <= 1 /\ CountEp(log[c], "csrf_token") <= 1
        /\ Held(c) =>
              /\ CountEp(log[c], "login") = 1 /\ CountEp(log[c], "csrf_token") = 1
              /\ log[c][1].ep = "login" /\ log[c][2].ep = "csrf_token"
              /\ ~ENABLED (Login(c) \/ Csrf(c))
        /\ pc[c] = "failed" =>
              /\ CountEp(log[c], "login") = 1 /\ Len(log[c]) <= 2
              /\ ~ENABLED (Login(c) \/ Csrf(c))
C11_Witness ==
    \E c \in Clients :
        /\ pc[c] = "ready" /\ Len(log[c]) >= 4
        /\ cur[c].req1.net = "Response" /\ cur[c].req1.status = 401
        /\ CountEp(log[c], "login") = 1 /\ CountEp(log[c], "csrf_token") = 1

\* Client c's create_chart or create_dashboard is over and its POST was answered.
Created(c) ==
    /\ cur[c].op \in {"create_chart", "create_dashboard"}
    /\ cur[c].req1.net = "Response"

\* C12: create_chart and create_dashboard return the id of the response body
\* when the POST is answered 2xx, and for every other status raise an error
\* and return no id; the payload of create_dashboard carries the chart ids in
\* the order the caller gave them.
C12_CreateReturnsIdOrRaises ==
    \A c \in Clients :
        Created(c) =>
            LET st == cur[c].req1.status
                b == cur[c].req1.body IN
            /\ (Is2xx(st) /\ b.json /\ b.hasId) => res[c] = RetId(b.id)
            /\ ~Is2xx(st) => res[c].out = "raise" /\ res[c].val # "id"
            /\ cur[c].op = "create_dashboard" => cur[c].payload = cur[c].charts

\* C13 as stated: every request sent after authentication carries the
\* session's Authorization and X-CSRFToken values, also when the caller
\* passes a header with the same key.
C13_Original ==
    \A c \in Clients : \A i \in 3..Len(log[c]) :
        log[c][i].auth = hdr[c].auth /\ log[c][i].csrf = hdr[c].csrf

\* C13 amended: every request sent after authentication carries an
\* Authorization and an X-CSRFToken header; each is the session's value when
\* the caller passes no header with that key, and the caller's value when it
\* does: on a collision the per-call header is the one sent.
C13_PerCallHeaderWins ==
    \A c \in Clients : \A i \in 3..Len(log[c]) :
        LET e == log[c][i] IN
        /\ e.auth # "" /\ e.csrf # ""
        /\ e.auth = (IF e.own.auth = "" THEN hdr[c].auth ELSE e.own.auth)
        /\ e.csrf = (IF e.own.csrf = "" THEN hdr[c].csrf ELSE e.own.csrf)
        /\ hdr[c].auth \in BearerValues /\ hdr[c].csrf \in CsrfTokens
C13_Witness ==
    \E c \in Clients : \E i \in 3..Len(log[c]) :
        /\ log[c][i].own.auth = "Basic own" /\ log[c][i].auth = "Basic own"
        /\ hdr[c].auth \in BearerValues /\ log[c][i].csrf = hdr[c].csrf

\* C14: every request that is sent has a timeout: the one the caller passed
\* with the call, otherwise the default of the client (the timeout argument
\* of its constructor); no request leaves without one.
C14_EveryRequestTimed ==
    /\ rest.pc = "done" => rest.timeout \in (TimeoutArgs \ {0}) \cup {DefaultTimeout}
    /\ \A c \in Clients : \A i \in 1..Len(log[c]) :
          log[c][i].timeout \in (TimeoutArgs \ {0}) \cup {DefaultTimeout}

\* C15: after close(), and after control has left a with-block over the
\* session (normally or by an exception), the Authorization and X-CSRFToken
\* values are cleared and the transport is closed: its pool keeps no connection.
C15_Teardown ==
    /\ rest.pc = "done" => rest.pool = "closed"
    /\ \A c \in Clients :
          cur[c].op \in {"close", "__exit__"} =>
              /\ hdr[c] = NoHeaders
              /\ pool[c] \notin {"open", "reopened"}

\* C16 as stated: the first close() releases the pool and every later
\* close() of the same session changes nothing and releases nothing.
C16_Original ==
    \A c \in Clients :
        cur[c].op = "close" =>
            /\ pool[c] = "closed"
            /\ cur[c].before \in {"closed", "reopened"} => pool[c] = cur[c].before

\* C16 amended: close() never fails and may be called any number of times;
\* every call runs session.close() and leaves the pool without a connection,
\* the headers as they were and the session usable.  A close() that finds
\* the pool released changes nothing; a close() after further requests
\* releases the connections made since the last one.
C16_CloseReleasesEachTime ==
    \A c \in Clients :
        cur[c].op = "close" =>
            /\ pool[c] = "closed" /\ res[c] = RetNone /\ pc[c] = "ready"
            /\ hdr[c].auth \in BearerValues /\ hdr[c].csrf \in CsrfTokens
            /\ cur[c].before = "closed" => pool[c] = cur[c].before
            /\ (ENABLED RequestWith(c)) \/ Len(log[c]) >= MaxReq
C16_Witness ==
    \E c \in Clients :
        /\ cur[c].op = "close" /\ cur[c].before = "reopened"
        /\ pool[c] = "closed" /\ res[c] = RetNone

\* The RestApiClient run is over and its request was answered 2xx.
Rest2xx == rest.pc = "done" /\ rest.net.net = "Response" /\ Is2xx(rest.net.status)
\* A call of client c is over and its last request was answered 2xx.
Answered2xx(c) ==
    /\ pc[c] \in {"ready", "failed"}
    /\ cur[c].op \notin {"none", "close", "__exit__"}
    /\ LastNet(c).net = "Response" /\ Is2xx(LastNet(c).status)

\* C17 as stated: a 2xx response with a JSON body is delivered parsed, equal
\* to what the server sent, one with another body as raw text, and no call
\* whose request is answered 2xx raises a decode failure.
C17_Original ==
    /\ Rest2xx =>
          rest.printed = Printed(IF rest.net.body.json THEN "json" ELSE "text",
                                 rest.net.body)
    /\ \A c \in Clients :
          Answered2xx(c) => res[c].exc # "JSONDecodeError"

\* C17 amended: get/post/put/patch/delete decode nothing: on a 2xx answer
\* both clients return the response itself with its body untouched.  The
\* command line of RestApiClient prints that body parsed when it is JSON and
\* as raw text when it is not, raising no decode failure.  The operations of
\* SupersetClient that read the body of a 2xx answer (the handshake,
\* create_dataset on 201, create_chart, create_dashboard, the lookups) raise
\* the decode failure when the body is not JSON, and never when it is.
C17_DecodeOutcomes ==
    /\ Rest2xx =>
          /\ rest.out = RetResponse(rest.net.status, rest.net.body)
          /\ rest.printed = Printed(IF rest.net.body.json THEN "json" ELSE "text",
                                    rest.net.body)
          /\ rest.code = 0
    /\ \A c \in Clients :
          Answered2xx(c) =>
              LET n == LastNet(c) IN
              /\ cur[c].op = "request" => res[c] = RetResponse(n.status, n.body)
              /\ (cur[c].op # "request" /\ ~n.body.json) =>
                    IF cur[c].op = "create_dataset" /\ cur[c].req2 = NoNet /\ n.status # 201
                    THEN res[c] = Raise("RuntimeError", "dataset_create", 0)
                    ELSE res[c] = Raise("JSONDecodeError", "", 0)
              /\ n.body.json => res[c].exc # "JSONDecodeError"
C17_Witness ==
    \E c \in Clients :
        /\ Answered2xx(c) /\ cur[c].op = "create_dataset"
        /\ cur[c].req1 = Resp(201, TextBody)
        /\ res[c] = Raise("JSONDecodeError", "", 0)

\* The slashes string s ends with, and those it starts with.
TrailingSlashes(s) ==
    CHOOSE k \in 0..Len(s) :
        /\ \A i \in (Len(s) - k + 1)..Len(s) : s[i] = "/"
        /\ k < Len(s) => s[Len(s) - k] # "/"
LeadingSlashes(s) ==
    CHOOSE k \in 0..Len(s) :
        /\ \A i \in 1..k : s[i] = "/"
        /\ k < Len(s) => s[k + 1] # "/"

\* C18: for every base URL and endpoint, whatever the number of slashes the
\* base URL ends with and the endpoint starts with, the URL requested is the
\* base URL without its trailing slashes, one slash, and the endpoint without
\* its leading slashes: no second slash stands next to the joining one.
C18_ExactlyOneSlash ==
    join.by # "none" =>
        LET b == SubSeq(join.base, 1, Len(join.base) - TrailingSlashes(join.base))
            e == SubSeq(join.endpoint, LeadingSlashes(join.endpoint) + 1,
                        Len(join.endpoint))
            u == join.url IN
        /\ u = b \o <<"/">> \o e
        /\ u[Len(b) + 1] = "/"
        /\ Len(b) > 0 => u[Len(b)] # "/"
        /\ Len(e) > 0 => u[Len(b) + 2] # "/"
C18_Witness ==
    /\ join.by = "SupersetClient"
    /\ TrailingSlashes(join.base) = 2 /\ LeadingSlashes(join.endpoint) = 2
    /\ join.url = <<"a", "/", "a">>

\* The operations that are one request each.
SingleRequestOps ==
    {"request", "get_dataset_id_by_name", "get_database_id_by_name", "create_chart",
     "create_dashboard"}

\* C19: no step of a session sends more than one request, and none sends a
\* request again.  An operation other than create_dataset is over with the
\* one request it sends, whatever the answer.  create_dataset sends its POST,
\* and then its lookup GET only when the POST was answered 422: the call is
\* over with the POST otherwise, and with the GET when that one is sent.
C19_NoRetry ==
    [][\A c \in Clients :
          /\ Len(log'[c]) <= Len(log[c]) + 1
          /\ SubSeq(log'[c], 1, Len(log[c])) = log[c]
          /\ Len(log'[c]) = Len(log[c]) + 1 =>
                LET e == log'[c][Len(log'[c])] IN
                /\ cur'[c].op \in SingleRequestOps =>
                      /\ pc[c] = "ready" /\ pc'[c] = "ready"
                      /\ cur'[c].req1 # NoNet /\ cur'[c].req2 = NoNet
                      /\ res'[c].out \in {"ret", "raise"}
                /\ (cur'[c].op = "create_dataset" /\ pc[c] = "ready") =>
                      /\ e.method = "POST" /\ e.ep = "dataset"
                      /\ cur'[c].req1 # NoNet /\ cur'[c].req2 = NoNet
                      /\ pc'[c] = "lookup" <=> cur'[c].req1 = Resp(422, cur'[c].req1.body)
                      /\ pc'[c] # "lookup" =>
                            pc'[c] = "ready" /\ res'[c].out \in {"ret", "raise"}
                /\ (cur'[c].op = "create_dataset" /\ pc[c] = "lookup") =>
                      /\ e.method = "GET" /\ e.ep = "dataset?q"
                      /\ cur'[c].req1 = cur[c].req1 /\ cur'[c].req2 # NoNet
                      /\ pc'[c] = "ready" /\ res'[c].out \in {"ret", "raise"}
                /\ pc[c] = "lookup" => cur'[c].op = "create_dataset"
      ]_vars
C19_Witness ==
    \E c \in Clients :
        /\ cur[c].op = "create_dataset" /\ pc[c] = "ready"
        /\ cur[c].req1.status = 422 /\ cur[c].req2 = TimeoutNet
        /\ res[c] = Raise("Timeout", "", 0)
        /\ log[c][Len(log[c]) - 1].ep = "dataset" /\ LastSent(c).ep = "dataset?q"

\* C20: once authentication is complete, no operation of the session changes
\* its headers, and with them its tokens, whatever its request is answered.
C20_HeadersReadOnly ==
    [][\A c \in Clients : Held(c) => hdr'[c] = hdr[c]]_vars
C20_Witness ==
    \E c \in Clients :
        /\ pc[c] = "ready" /\ cur[c].op = "create_chart"
        /\ cur[c].req1.net = "Response" /\ cur[c].req1.status = 401
        /\ hdr[c].auth \in BearerValues /\ hdr[c].csrf \in CsrfTokens
        /\ log[c][2].auth = hdr[c].auth

\* An operation of client c is over and its last request timed out.
TimedOut(c) ==
    /\ pc[c] \in {"ready", "failed"}
    /\ cur[c].op \notin {"none", "close", "__exit__"}
    /\ LastNet(c) = TimeoutNet

\* C21 as stated: after an operation whose request timed out, handshake
\* steps included, the session's headers are as before the operation began
\* or those of a fully authenticated session: never a bearer token without
\* a CSRF token.
C21_Original ==
    \A c \in Clients :
        TimedOut(c) =>
            \/ hdr[c] = NoHeaders
            \/ hdr[c].auth \in BearerValues /\ hdr[c].csrf \in CsrfTokens

\* C21 amended: a timeout of the login request leaves the headers empty; a
\* timeout of a request after authentication leaves both headers as the
\* handshake set them; a timeout of the CSRF request leaves the bearer token
\* that the login step set, without a CSRF token, in the session of an
\* object whose constructor raises: no caller holds it and it takes no
\* further step.  In each case the caller gets the transport's Timeout.
C21_TimeoutFrame ==
    \A c \in Clients :
        TimedOut(c) =>
            /\ res[c] = Raise("Timeout", "", 0)
            /\ (cur[c].op = "__init__" /\ cur[c].req2 = NoNet) =>
                  hdr[c] = NoHeaders /\ pc[c] = "failed"
            /\ (cur[c].op = "__init__" /\ cur[c].req2 # NoNet) =>
                  /\ hdr[c].auth = AuthHeader(cur[c].req1.body.access_token)
                  /\ hdr[c].auth \in BearerValues /\ hdr[c].csrf = ""
                  /\ pc[c] = "failed" /\ ~Held(c) /\ ~ENABLED ClientStep(c)
            /\ cur[c].op # "__init__" =>
                  /\ pc[c] = "ready"
                  /\ hdr[c].auth = log[c][2].auth /\ hdr[c].auth \in BearerValues
                  /\ hdr[c].csrf \in CsrfTokens
C21_Witness ==
    \E c \in Clients :
        /\ TimedOut(c) /\ cur[c].op = "__init__" /\ cur[c].req2 = TimeoutNet
        /\ hdr[c].auth \in BearerValues /\ hdr[c].csrf = "" /\ pc[c] = "failed"

\* Client c's create_dataset returned an id the server reported: the id of
\* the dataset its 201 created, or the single entry of the list it holds
\* for the table name.
ServerReportedId(c) ==
    /\ cur[c].op = "create_dataset" /\ pc[c] = "ready" /\ res[c].out = "ret"
    /\ IF cur[c].req2 = NoNet
       THEN cur[c].req1.status = 201 /\ cur[c].faithful
       ELSE cur[c].req2 = Resp(200, ListBody(DatasetsNamed(datasets, cur[c].name)))

\* C22: an id that create_dataset(database_id, table_name, schema) returns
\* denotes the server's dataset with that database, schema and table name,
\* also when it comes from the lookup after a 422 and the server holds the
\* table name under another database or schema.
C22_ReturnedIdDenotesArguments ==
    \A c \in Clients :
        ServerReportedId(c) =>
            /\ datasets[CallKey(c)] # 0
            /\ res[c] = RetId(datasets[CallKey(c)])

\* Both sessions' create_dataset calls are over.
RaceOver ==
    \A c \in Clients : cur[c].op = "create_dataset" /\ pc[c] = "ready"

\* C23: when two sessions have run create_dataset with the same arguments,
\* their requests interleaved in any order, against a server that enforces
\* uniqueness, both calls returned the same id, neither raised, and the
\* server holds the one dataset of those arguments under that id.
C23_ConcurrentCreate ==
    RaceOver =>
        /\ \A c \in Clients : res[c].out = "ret"
        /\ \A c, d \in Clients :
              /\ CallKey(c) = CallKey(d)
              /\ res[c] = res[d]
              /\ res[c] = RetId(datasets[CallKey(c)])
        /\ \A c \in Clients : datasets[CallKey(c)] # 0

\* The create_dataset call of client c is over.
CreateDatasetDone(c) == cur[c].op = "create_dataset" /\ pc[c] = "ready"

\* C24: create_dataset returns only an id the server reported: the id of the
\* 201 body (no lookup is sent), or the single entry of the lookup that
\* follows a 422.  When the POST is answered 422 and the lookup's list is
\* empty or has two or more entries, the call raises the lookup's not-found
\* or ambiguous error and returns no id.
C24_OnlyServerReportedId ==
    \A c \in Clients :
        CreateDatasetDone(c) =>
            LET post == cur[c].req1
                get == cur[c].req2 IN
            /\ res[c].out \in {"ret", "raise"}
            /\ res[c].out = "ret" =>
                  \/ /\ post.net = "Response" /\ post.status = 201
                     /\ post.body.json /\ post.body.hasId
                     /\ res[c].id = post.body.id
                     /\ get = NoNet
                  \/ /\ post.net = "Response" /\ post.status = 422
                     /\ get.net = "Response" /\ get.body.json
                     /\ get.body.list = <<res[c].id>>
            /\ (post.net = "Response" /\ post.status = 422
                   /\ get.net = "Response" /\ get.body.json) =>
                  /\ Len(get.body.list) = 0 =>
                        res[c] = Raise("ValueError", "not_found", 0)
                  /\ Len(get.body.list) >= 2 =>
                        res[c] = Raise("ValueError", "ambiguous", 0)
C24_Witness ==
    \E c \in Clients :
        /\ CreateDatasetDone(c)
        /\ cur[c].req1.net = "Response" /\ cur[c].req1.status = 422
        /\ cur[c].req2.net = "Response" /\ cur[c].req2.body.json
        /\ Len(cur[c].req2.body.list) >= 2
        /\ res[c] = Raise("ValueError", "ambiguous", 0)

====
